---- MODULE Spec2Model ----
(***************************************************************************)
(* A model of the multimodal RAG pipeline for banking documents:           *)
(*   - HybridRetriever.retrieve          (src/src/services/retriever.py)   *)
(*   - SemanticChunker.chunk_document    (src/src/services/chunker.py)     *)
(*   - DocumentCracker._extract_page     (src/src/services/                *)
(*                                        document_cracker.py)             *)
(* Scores are kept in hundredths (0.7 is 70), texts are sequences of       *)
(* one-character strings.                                                  *)
(***************************************************************************)
EXTENDS Integers, Sequences, FiniteSets, TLC

Min(a, b) == IF a <= b THEN a ELSE b

Max(a, b) == IF a >= b THEN a ELSE b

(***************************************************************************)
(* Configuration (src/src/config.py).                                      *)
(***************************************************************************)
\* Settings.top_k_results
DefaultTopK == 5

\* Settings.similarity_threshold, 0.7 in hundredths
SimilarityThreshold == 70

\* Settings.chunk_size
DefaultChunkSize == 512

\* Settings.chunk_overlap
DefaultChunkOverlap == 100

\* DocumentCracker.__init__(min_image_size=100)
DefaultMinImageSize == 100

(***************************************************************************)
(* Bounds of the retriever model.                                          *)
(***************************************************************************)
\* the most hits one search response holds
MaxHits == 2

\* the largest explicitly requested top_k
MaxTopK == 2

\* a requested top_k whose half is above 2
LargeTopK == 6

(***************************************************************************)
(* Bounds of the ingestion model.                                          *)
(***************************************************************************)
\* the most lines of a page text built from the line catalogue
MaxLines == 3

\* the most pages of a document built from the page catalogue
MaxPages == 2

\* the most embedded images of a page
MaxImages == 2

\* What the search service can answer with: (id, @search.score) pairs.  Ids 1
\* and 3 occur with two scores each, 70 sits on the threshold.
HitCatalogue ==
    { <<1, 90>>, <<2, 75>>, <<3, 60>>, <<4, 30>>, <<1, 75>>, <<3, 70>> }

\* top_k: int | None, <<>> standing for None
TopKValues == {<<>>} \cup { <<n>> : n \in 0..MaxTopK } \cup {<<LargeTopK>>}

VARIABLES
    rpc,             \* where retrieve stands: "start", "text", "merge", "done", "raised"
    top_k,           \* the top_k argument of retrieve
    include_images,  \* the include_images argument of retrieve
    text_results,    \* what _hybrid_text_search returned
    image_results,   \* what _image_search returned
    image_failed,    \* whether _image_search swallowed an exception
    search_calls,    \* the queries sent to the search service, in order
    embed_calls,     \* the query embedding calls retrieve made, in order
    results,         \* retrieve's local: the merged list
    unique_results,  \* retrieve's local: sorted and deduplicated
    filtered,        \* retrieve's local: at or above the threshold
    returned,        \* the value retrieve returned
    ipc,             \* where ingest stands: "idle", "crack", "chunk", "chunked"
    doc,             \* the pages of the PDF handed to crack
    filename,        \* the filename argument
    min_image_size,  \* DocumentCracker.min_image_size
    chunk_size,      \* SemanticChunker.chunk_size
    chunk_overlap,   \* SemanticChunker.chunk_overlap
    page_num,        \* crack's loop variable
    pages,           \* crack's local: the ExtractedPage list
    page_pos,        \* the position of chunk_document's loop in pages
    all_chunks,      \* chunk_document's local
    origins,         \* for each chunk of all_chunks, the branch that emitted it
    chunk_index,     \* chunk_document's local
    qpc,             \* where query_documents stands: "none", "request",
                     \* "retrieve", "answered", "error"
    request,         \* the QueryRequest
    generate_calls,  \* the chunk lists handed to MultimodalGenerator.generate
    content_parts,   \* generate's local: what _build_context returned
    response,        \* the QueryResponse
    text_embeddings, \* ingest's local: what TextEmbedder.embed_batch returned
    image_embeddings,\* ingest's local: what ImageEmbedder.embed_batch returned
    search_docs,     \* ingest's local: the documents prepared for the index
    search_index,    \* the documents uploaded to the search index
    upload_pos,      \* upload_documents' loop: the documents handed over so far
    summary          \* what ingest returned, <<>> before

rvars == << rpc, top_k, include_images, text_results, image_results,
            image_failed, search_calls, embed_calls, results, unique_results,
            filtered, returned >>

ivars == << ipc, doc, filename, min_image_size, chunk_size, chunk_overlap,
            page_num, pages, page_pos, all_chunks, origins, chunk_index >>

qvars == << qpc, request, generate_calls, content_parts, response >>

xvars == << text_embeddings, image_embeddings, search_docs, search_index,
           upload_pos, summary >>

vars == << rvars, ivars, qvars, xvars >>

(***************************************************************************)
(* Text: Python str as a TLA+ string, one character being a string of      *)
(* length one.                                                             *)
(***************************************************************************)
Ch(s, i) == SubSeq(s, i, i)

\* what \s and str.strip() take for whitespace
IsSpace(c) == c \in {" ", "\n", "\t", "\r"}

IsDigit(c) == c \in {"0", "1", "2", "3", "4", "5", "6", "7", "8", "9"}

UpperLetters == "ABCDEFGHIJKLMNOPQRSTUVWXYZ"

LowerLetters == "abcdefghijklmnopqrstuvwxyz"

\* the lower-case letter of each upper-case letter
LowerMap ==
    [ c \in { Ch(UpperLetters, i) : i \in 1..26 } |->
        Ch(LowerLetters, CHOOSE i \in 1..26 : Ch(UpperLetters, i) = c) ]

Letters == { Ch(LowerLetters, i) : i \in 1..26 }

\* str.lower() of one character
LowerCh(c) == IF c \in DOMAIN LowerMap THEN LowerMap[c] ELSE c

\* [A-Z] under re.IGNORECASE
IsLetter(c) == LowerCh(c) \in Letters

\* str.lower()
RECURSIVE Lower(_)
Lower(s) == IF s = "" THEN "" ELSE LowerCh(Head(s)) \o Lower(Tail(s))

RECURSIVE LStrip(_)
LStrip(s) == IF s # "" /\ IsSpace(Head(s)) THEN LStrip(Tail(s)) ELSE s

RECURSIVE RStrip(_)
RStrip(s) ==
    IF s # "" /\ IsSpace(Ch(s, Len(s)))
    THEN RStrip(SubSeq(s, 1, Len(s) - 1))
    ELSE s

\* str.strip()
Strip(s) == RStrip(LStrip(s))

\* str.startswith
StartsWith(s, p) == Len(s) >= Len(p) /\ SubSeq(s, 1, Len(p)) = p

\* sub in s
Contains(s, sub) ==
    \E i \in 1..(Len(s) - Len(sub) + 1) : SubSeq(s, i, i + Len(sub) - 1) = sub

\* str.count of one character
Count(s, c) == Cardinality({ i \in 1..Len(s) : Ch(s, i) = c })

\* text.split("\n")
RECURSIVE SplitLines(_)
SplitLines(s) ==
    IF ~Contains(s, "\n") THEN <<s>>
    ELSE LET i == CHOOSE k \in 1..Len(s) :
                     /\ Ch(s, k) = "\n"
                     /\ \A m \in 1..(k - 1) : Ch(s, m) # "\n"
         IN  <<SubSeq(s, 1, i - 1)>> \o SplitLines(SubSeq(s, i + 1, Len(s)))

\* sep.join(parts)
RECURSIVE Join(_, _)
Join(parts, sep) ==
    IF parts = <<>> THEN ""
    ELSE IF Len(parts) = 1 THEN parts[1]
    ELSE parts[1] \o sep \o Join(Tail(parts), sep)

\* c * n
RECURSIVE Repeat(_, _)
Repeat(c, n) == IF n = 0 THEN "" ELSE c \o Repeat(c, n - 1)

RECURSIVE SumSeq(_)
SumSeq(s) == IF s = <<>> THEN 0 ELSE Head(s) + SumSeq(Tail(s))

(***************************************************************************)
(* SemanticChunker: patterns and markers                                   *)
(***************************************************************************)
\* r"^#{1,3}\s+.+"
MatchMarkdownHeader(l) ==
    \E n \in 1..3 :
        /\ Len(l) >= n
        /\ \A i \in 1..n : Ch(l, i) = "#"
        /\ \E m \in 1..Len(l) :
              /\ Len(l) >= n + m + 1
              /\ \A i \in (n + 1)..(n + m) : IsSpace(Ch(l, i))
              /\ Ch(l, n + m + 1) # "\n"

\* r"^(?:Chapter|Section|Part)\s+\d+"
MatchFormalSection(l) ==
    LET low == Lower(l)
    IN  \E w \in {"chapter", "section", "part"} :
            /\ StartsWith(low, w)
            /\ \E m \in 1..Len(l) :
                  /\ Len(l) >= Len(w) + m + 1
                  /\ \A i \in (Len(w) + 1)..(Len(w) + m) : IsSpace(Ch(l, i))
                  /\ IsDigit(Ch(l, Len(w) + m + 1))

\* r"^(?:Executive Summary|Financial Highlights|Risk Factors)"
MatchSummarySection(l) ==
    LET low == Lower(l)
    IN  \E w \in {"executive summary", "financial highlights", "risk factors"} :
            StartsWith(low, w)

\* r"^(?:Balance Sheet|Income Statement|Cash Flow)"
MatchStatementSection(l) ==
    LET low == Lower(l)
    IN  \E w \in {"balance sheet", "income statement", "cash flow"} :
            StartsWith(low, w)

\* r"^(?:Notes to |Management Discussion|Auditor)"
MatchNotesSection(l) ==
    LET low == Lower(l)
    IN  \E w \in {"notes to ", "management discussion", "auditor"} :
            StartsWith(low, w)

\* r"^\d+\.\s+[A-Z]"
MatchNumberedSection(l) ==
    \E d \in 1..Len(l) :
        /\ Len(l) >= d + 1
        /\ \A i \in 1..d : IsDigit(Ch(l, i))
        /\ Ch(l, d + 1) = "."
        /\ \E m \in 1..Len(l) :
              /\ Len(l) >= d + m + 2
              /\ \A i \in (d + 2)..(d + m + 1) : IsSpace(Ch(l, i))
              /\ IsLetter(Ch(l, d + m + 2))

\* any(re.match(pattern, line.strip(), re.IGNORECASE) for pattern in SECTION_PATTERNS)
IsSectionHeader(line) ==
    LET l == Strip(line)
    IN  \/ MatchMarkdownHeader(l)
        \/ MatchFormalSection(l)
        \/ MatchSummarySection(l)
        \/ MatchStatementSection(l)
        \/ MatchNotesSection(l)
        \/ MatchNumberedSection(l)

\* the box-drawing character U+2500 of the third marker is written ~
TABLE_MARKERS == <<"table", "|", "~~~", "---", "===">>

FIGURE_MARKERS == <<"figure", "chart", "graph", "exhibit", "fig.">>

\* len(text) // 4
EstimateTokens(text) == Len(text) \div 4

\* pipe_count > 4 or any(m in text_lower for m in TABLE_MARKERS[:1])
ContainsTable(text) ==
    \/ Count(text, "|") > 4
    \/ \E k \in 1..1 : Contains(Lower(text), TABLE_MARKERS[k])

\* any(m in text_lower for m in FIGURE_MARKERS)
ReferencesFigure(text) ==
    \E k \in DOMAIN FIGURE_MARKERS : Contains(Lower(text), FIGURE_MARKERS[k])

(***************************************************************************)
(* SemanticChunker._split_into_sections                                    *)
(***************************************************************************)
\* the for loop over lines and the flush after it; a section is <<title, body>>
RECURSIVE SectionLoop(_, _, _, _)
SectionLoop(lines, sections, current_title, current_lines) ==
    IF lines = <<>>
    THEN IF current_lines # <<>>
         THEN Append(sections, <<current_title, Join(current_lines, "\n")>>)
         ELSE sections
    ELSE IF IsSectionHeader(Head(lines)) /\ current_lines # <<>>
         THEN SectionLoop(Tail(lines),
                          Append(sections,
                                 <<current_title, Join(current_lines, "\n")>>),
                          Strip(Head(lines)), <<>>)
         ELSE SectionLoop(Tail(lines), sections, current_title,
                          Append(current_lines, Head(lines)))

SplitIntoSections(text) ==
    LET sections == SectionLoop(SplitLines(text), <<>>, "", <<>>)
    IN  IF sections # <<>> THEN sections ELSE << <<"", text>> >>

(***************************************************************************)
(* SemanticChunker._chunk_with_overlap                                     *)
(***************************************************************************)
IsSentenceEnd(c) == c \in {".", "!", "?"}

\* the first position at or after i that holds no whitespace
RECURSIVE SkipSpace(_, _)
SkipSpace(text, i) ==
    IF i <= Len(text) /\ IsSpace(Ch(text, i)) THEN SkipSpace(text, i + 1) ELSE i

\* re.split(r'(?<=[.!?])\s+', text), scanning from i with the piece begun at start
RECURSIVE SplitSentencesFrom(_, _, _)
SplitSentencesFrom(text, i, start) ==
    IF i > Len(text) THEN <<SubSeq(text, start, Len(text))>>
    ELSE IF i > 1 /\ IsSpace(Ch(text, i)) /\ IsSentenceEnd(Ch(text, i - 1))
         THEN <<SubSeq(text, start, i - 1)>>
              \o SplitSentencesFrom(text, SkipSpace(text, i), SkipSpace(text, i))
         ELSE SplitSentencesFrom(text, i + 1, start)

SplitSentences(text) == SplitSentencesFrom(text, 1, 1)

\* the backward walk over current_chunk: the position the overlap starts at,
\* len(current_chunk) + 1 (one-based) when the walk never reaches the overlap
RECURSIVE OverlapStart(_, _, _, _)
OverlapStart(toks, i, overlap_tokens, overlap) ==
    IF i < 1 THEN Len(toks) + 1
    ELSE IF overlap_tokens + toks[i] >= overlap THEN i
    ELSE OverlapStart(toks, i - 1, overlap_tokens + toks[i], overlap)

\* the for loop over sentences: toks[j] is the token estimate of sentence j,
\* a chunk is kept as the positions of its sentences
RECURSIVE OverlapLoop(_, _, _, _, _, _, _)
OverlapLoop(toks, j, chunks, current_chunk, current_tokens, size, overlap) ==
    IF j > Len(toks)
    THEN IF current_chunk # <<>> THEN Append(chunks, current_chunk) ELSE chunks
    ELSE IF current_tokens + toks[j] > size /\ current_chunk # <<>>
         THEN LET overlap_start ==
                      OverlapStart([i \in DOMAIN current_chunk |-> toks[current_chunk[i]]],
                                   Len(current_chunk), 0, overlap)
                  kept == SubSeq(current_chunk, overlap_start, Len(current_chunk))
                  kept_tokens == SumSeq([i \in DOMAIN kept |-> toks[kept[i]]])
              IN  OverlapLoop(toks, j + 1, Append(chunks, current_chunk),
                              Append(kept, j), kept_tokens + toks[j],
                              size, overlap)
         ELSE OverlapLoop(toks, j + 1, chunks, Append(current_chunk, j),
                          current_tokens + toks[j], size, overlap)

\* (mutant) _chunk_with_overlap without the final `if current_chunk` append
SentenceGroupsWithoutLast(sentences, size, overlap) ==
    LET groups == OverlapLoop([i \in DOMAIN sentences |->
                                  EstimateTokens(sentences[i])],
                              1, <<>>, <<>>, 0, size, overlap)
    IN  SubSeq(groups, 1, Len(groups) - 1)

\* the sub-chunks of a run as sequences of sentence positions
SentenceGroups(sentences, size, overlap) ==
    OverlapLoop([i \in DOMAIN sentences |-> EstimateTokens(sentences[i])],
                1, <<>>, <<>>, 0, size, overlap)

\* " ".join(current_chunk) for every sub-chunk
ChunkWithOverlap(text, size, overlap) ==
    LET sentences == SplitSentences(text)
        groups == SentenceGroups(sentences, size, overlap)
    IN  [g \in DOMAIN groups |->
            Join([i \in DOMAIN groups[g] |-> sentences[groups[g][i]]], " ")]

(***************************************************************************)
(* SemanticChunker._table_to_text                                          *)
(***************************************************************************)
RowToText(row) == Join(row, " | ")

TableToText(table) ==
    LET head == IF table.headers # <<>>
                THEN <<RowToText(table.headers), Repeat("-", 40)>>
                ELSE <<>>
        body == [r \in DOMAIN table.rows |-> RowToText(table.rows[r])]
    IN  Join(head \o body, "\n")

(***************************************************************************)
(* DocumentCracker                                                         *)
(***************************************************************************)
\* caption_keywords of _find_image_caption
CaptionKeywords == {"figure", "chart", "graph", "table", "exhibit", "fig."}

\* _find_image_caption: the first text block holding a caption keyword,
\* stripped and cut to 200 characters
RECURSIVE FindImageCaption(_)
FindImageCaption(blocks) ==
    IF blocks = <<>> THEN ""
    ELSE IF \E kw \in CaptionKeywords : Contains(Strip(Lower(Head(blocks))), kw)
         THEN SubSeq(Strip(Head(blocks)), 1, Min(200, Len(Strip(Head(blocks)))))
         ELSE FindImageCaption(Tail(blocks))

\* (mutant) the size filter with "and" for "or"
LargeEnoughEither(width, height, min_size) ==
    ~(width < min_size /\ height < min_size)

\* whether the size filter lets an image through
LargeEnough(width, height, min_size) ==
    ~(width < min_size \/ height < min_size)

\* the loop of _extract_images from the image at position i on: an image
\* whose resource is missing or does not decode is skipped
RECURSIVE ExtractImagesFrom(_, _, _, _)
ExtractImagesFrom(raw_page, page_number, i, min_size) ==
    IF i > Len(raw_page.image_list) THEN <<>>
    ELSE LET img == raw_page.image_list[i]
             rest == ExtractImagesFrom(raw_page, page_number, i + 1, min_size)
         IN  IF img.status # "ok" THEN rest
             ELSE IF ~LargeEnough(img.width, img.height, min_size) THEN rest
             ELSE << [ width |-> img.width,
                       height |-> img.height,
                       page_number |-> page_number,
                       image_index |-> i - 1,
                       caption |-> FindImageCaption(raw_page.blocks) ] >> \o rest

ExtractImages(raw_page, page_number, min_size) ==
    ExtractImagesFrom(raw_page, page_number, 1, min_size)

\* the loop of _extract_tables over tabs.tables: a table whose extract()
\* raises ends the loop, the tables appended before it stay in the list
RECURSIVE ExtractTablesFrom(_, _)
ExtractTablesFrom(found, i) ==
    IF i > Len(found) THEN <<>>
    ELSE IF found[i].raises THEN <<>>
    ELSE IF found[i].data = <<>> THEN ExtractTablesFrom(found, i + 1)
    ELSE << [ table_index |-> i - 1,
              headers |-> found[i].data[1],
              rows |-> Tail(found[i].data),
              row_count |-> Len(found[i].data),
              col_count |-> Len(found[i].data[1]) ] >>
         \o ExtractTablesFrom(found, i + 1)

\* _extract_tables: find_tables() raising gives no table
ExtractTables(raw_page) ==
    IF raw_page.tabs.raises THEN <<>>
    ELSE ExtractTablesFrom(raw_page.tabs.tables, 1)

\* _extract_page
ExtractedPage(raw_page, page_number, min_size) ==
    [ page_number |-> page_number,
      text |-> Strip(raw_page.text),
      tables |-> ExtractTables(raw_page),
      images |-> ExtractImages(raw_page, page_number, min_size) ]

(***************************************************************************)
(* SemanticChunker.chunk_document                                          *)
(***************************************************************************)
TextChunkId(fname, page_number, index) ==
    fname \o "_p" \o ToString(page_number) \o "_c" \o ToString(index)

\* (mutant) the table identifier without the page
TableChunkIdNoPage(fname, page_number, table_index) ==
    fname \o "_t" \o ToString(table_index)

TableChunkId(fname, page_number, table_index) ==
    fname \o "_p" \o ToString(page_number) \o "_t" \o ToString(table_index)

\* the Chunk dataclass
Chunk(id, content, page_number, index, table, figure, title, fname) ==
    [ chunk_id |-> id,
      content |-> content,
      page_number |-> page_number,
      chunk_index |-> index,
      token_count |-> EstimateTokens(content),
      has_table |-> table,
      has_image_reference |-> figure,
      section_title |-> title,
      source_document |-> fname ]

\* (mutant) the length of a section looked at before its table structure
SectionBranchSizeFirst(section_text, size) ==
    IF Strip(section_text) = "" THEN "skip"
    ELSE IF EstimateTokens(section_text) > size THEN "overlap"
    ELSE IF ContainsTable(section_text) THEN "table_run"
    ELSE "single"

\* the branch of the loop body a section takes: skipped when blank, kept whole
\* when it holds a table, split when long, else emitted as it is
SectionBranch(section_text, size) ==
    IF Strip(section_text) = "" THEN "skip"
    ELSE IF ContainsTable(section_text) THEN "table_run"
    ELSE IF EstimateTokens(section_text) > size THEN "overlap"
    ELSE "single"

\* What one section of a page emits, index being chunk_index when the section
\* is reached.  Each emitted chunk is paired with where it came from: the
\* branch (via), the position of the section on the page (run) and, for a
\* sub-chunk, the positions of its sentences.
SectionChunks(page, run, section, index, fname, size, overlap) ==
    LET section_title == section[1]
        section_text == section[2]
        branch == SectionBranch(section_text, size)
        has_figure_ref == ReferencesFigure(section_text)
        sentences == SplitSentences(section_text)
        groups == SentenceGroups(sentences, size, overlap)
        sub_chunks == ChunkWithOverlap(section_text, size, overlap)
    IN  IF branch = "skip" THEN <<>>
        ELSE IF branch = "table_run"
        THEN << [ chunk |-> Chunk(TextChunkId(fname, page.page_number, index),
                                  section_text, page.page_number, index,
                                  TRUE, FALSE, section_title, fname),
                  origin |-> [via |-> "table_run", run |-> run,
                              sentences |-> <<>>] ] >>
        ELSE IF branch = "overlap"
        THEN [ k \in DOMAIN sub_chunks |->
                 [ chunk |-> Chunk(TextChunkId(fname, page.page_number,
                                               index + k - 1),
                                   sub_chunks[k], page.page_number,
                                   index + k - 1, FALSE, has_figure_ref,
                                   section_title, fname),
                   origin |-> [via |-> "overlap", run |-> run,
                               sentences |-> groups[k]] ] ]
        ELSE << [ chunk |-> Chunk(TextChunkId(fname, page.page_number, index),
                                  section_text, page.page_number, index,
                                  FALSE, has_figure_ref, section_title, fname),
                  origin |-> [via |-> "single", run |-> run,
                              sentences |-> <<>>] ] >>

\* the for loop over the sections of a page
RECURSIVE TextChunks(_, _, _, _, _, _, _)
TextChunks(page, sections, run, index, fname, size, overlap) ==
    IF run > Len(sections) THEN <<>>
    ELSE LET here == SectionChunks(page, run, sections[run], index,
                                   fname, size, overlap)
         IN  here \o TextChunks(page, sections, run + 1, index + Len(here),
                                fname, size, overlap)

\* the for loop over page.tables
TableChunks(page, index, fname) ==
    [ t \in DOMAIN page.tables |->
        [ chunk |-> Chunk(TableChunkId(fname, page.page_number,
                                       page.tables[t].table_index),
                          TableToText(page.tables[t]), page.page_number,
                          index + t - 1, TRUE, FALSE,
                          "Table " \o ToString(page.tables[t].table_index + 1),
                          fname),
          origin |-> [via |-> "table", run |-> 0, sentences |-> <<>>] ] ]

\* (mutant) the table chunks of a page emitted before its text-run chunks
PageChunksTablesFirst(page, index, fname, size, overlap) ==
    LET table_chunks == TableChunks(page, index, fname)
    IN  table_chunks
        \o TextChunks(page, SplitIntoSections(page.text), 1,
                      index + Len(table_chunks), fname, size, overlap)

\* (mutant) chunk_document starting each page at chunk_index 0
PageChunksIndexReset(page, index, fname, size, overlap) ==
    LET text_chunks == TextChunks(page, SplitIntoSections(page.text), 1, 0,
                                  fname, size, overlap)
    IN  text_chunks \o TableChunks(page, Len(text_chunks), fname)

\* one turn of the for loop over pages
PageChunks(page, index, fname, size, overlap) ==
    LET text == TextChunks(page, SplitIntoSections(page.text), 1, index,
                           fname, size, overlap)
    IN  text \o TableChunks(page, index + Len(text), fname)

(***************************************************************************)
(* Ingestion: DocumentCracker.crack, then SemanticChunker.chunk_document    *)
(***************************************************************************)
NoTabs == [raises |-> FALSE, tables |-> <<>>]

\* a document page as PyMuPDF hands it to _extract_page
RawPage(text, image_list, tabs, blocks) ==
    [text |-> text, image_list |-> image_list, tabs |-> tabs, blocks |-> blocks]

IngestIdle ==
    /\ ipc = "idle"
    /\ doc = <<>>
    /\ filename = ""
    /\ min_image_size = DefaultMinImageSize
    /\ chunk_size = DefaultChunkSize
    /\ chunk_overlap = DefaultChunkOverlap
    /\ page_num = 0
    /\ pages = <<>>
    /\ page_pos = 0
    /\ all_chunks = <<>>
    /\ origins = <<>>
    /\ chunk_index = 0

\* crack is called on a document, with the components configured
IngestStart(d, size, overlap, min_size) ==
    /\ ipc = "crack"
    /\ doc = d
    /\ filename = "q3.pdf"
    /\ min_image_size = min_size
    /\ chunk_size = size
    /\ chunk_overlap = overlap
    /\ page_num = 0
    /\ pages = <<>>
    /\ page_pos = 0
    /\ all_chunks = <<>>
    /\ origins = <<>>
    /\ chunk_index = 0

\* one turn of crack's loop: for page_num in range(doc.page_count)
ExtractPage ==
    /\ ipc = "crack"
    /\ page_num < Len(doc)
    /\ pages' = Append(pages,
                       ExtractedPage(doc[page_num + 1], page_num + 1,
                                     min_image_size))
    /\ page_num' = page_num + 1
    /\ UNCHANGED << ipc, doc, filename, min_image_size, chunk_size,
                    chunk_overlap, page_pos, all_chunks, origins, chunk_index >>
    /\ UNCHANGED << rvars, qvars, xvars >>

\* crack returns the CrackedDocument and ingest calls chunk_document on its pages
ChunkDocument ==
    /\ ipc = "crack"
    /\ page_num = Len(doc)
    /\ ipc' = "chunk"
    /\ all_chunks' = <<>>
    /\ origins' = <<>>
    /\ chunk_index' = 0
    /\ page_pos' = 1
    /\ UNCHANGED << doc, filename, min_image_size, chunk_size, chunk_overlap,
                    page_num, pages >>
    /\ UNCHANGED << rvars, qvars, xvars >>

\* one turn of chunk_document's loop: for page in pages
ChunkPage ==
    /\ ipc = "chunk"
    /\ page_pos <= Len(pages)
    /\ LET emitted == PageChunks(pages[page_pos], chunk_index, filename,
                                 chunk_size, chunk_overlap)
       IN  /\ all_chunks' = all_chunks \o [k \in DOMAIN emitted |-> emitted[k].chunk]
           /\ origins' = origins \o [k \in DOMAIN emitted |-> emitted[k].origin]
           /\ chunk_index' = chunk_index + Len(emitted)
    /\ page_pos' = page_pos + 1
    /\ UNCHANGED << ipc, doc, filename, min_image_size, chunk_size,
                    chunk_overlap, page_num, pages >>
    /\ UNCHANGED << rvars, qvars, xvars >>

\* chunk_document returns all_chunks
ChunkDocumentReturn ==
    /\ ipc = "chunk"
    /\ page_pos > Len(pages)
    /\ ipc' = "chunked"
    /\ UNCHANGED << doc, filename, min_image_size, chunk_size, chunk_overlap,
                    page_num, pages, page_pos, all_chunks, origins, chunk_index >>
    /\ UNCHANGED << rvars, qvars, xvars >>

IngestNext ==
    \/ ExtractPage
    \/ ChunkDocument
    \/ ChunkPage
    \/ ChunkDocumentReturn

\* no retrieve call is under way
RetrieverIdle ==
    /\ rpc = "idle"
    /\ top_k = <<>>
    /\ include_images = TRUE
    /\ text_results = <<>>
    /\ image_results = <<>>
    /\ image_failed = FALSE
    /\ search_calls = <<>>
    /\ embed_calls = <<>>
    /\ results = <<>>
    /\ unique_results = <<>>
    /\ filtered = <<>>
    /\ returned = <<>>

\* no query is in progress: retrieve is called directly
QueryIdle ==
    /\ qpc = "none"
    /\ request = <<>>
    /\ generate_calls = <<>>
    /\ content_parts = <<>>
    /\ response = <<>>

\* ingest has not come to its embedding steps
IndexingIdle ==
    /\ text_embeddings = <<>>
    /\ image_embeddings = <<>>
    /\ search_docs = <<>>
    /\ search_index = <<>>
    /\ upload_pos = 0
    /\ summary = <<>>

(***************************************************************************)
(* Inputs                                                                  *)
(***************************************************************************)
\* the lines page texts are made of
LineCatalogue ==
    { "Balance Sheet", "Assets: 100", "Liabilities: 40", "A | B | C",
      "Hi.", "Rates rose.", "" }

\* chunk_size and chunk_overlap settings: small ones, which make the short
\* texts of the model long, and the defaults
ChunkSettings ==
    { <<1, 1>>, <<2, 1>>, <<1, DefaultChunkOverlap>>,
      <<DefaultChunkSize, DefaultChunkOverlap>> }

\* the texts of at most MaxLines lines
PageTextsOfLines ==
    UNION { { Join(ls, "\n") : ls \in [1..n -> LineCatalogue] } : n \in 1..MaxLines }

\* one page of text, no image, no table, under every setting
InitChunkText ==
    /\ \E text \in PageTextsOfLines : \E cfg \in ChunkSettings :
          IngestStart(<<RawPage(text, <<>>, NoTabs, <<>>)>>, cfg[1], cfg[2],
                      DefaultMinImageSize)
    /\ RetrieverIdle
    /\ QueryIdle
    /\ IndexingIdle

SpecChunkText == InitChunkText /\ [][IngestNext]_vars

\* the lines of pages with and without table structure
TableLineCatalogue ==
    { "Assets: 100", "---", "===", "A | B | C", "See Table 2",
      "A | B | C | D | E | F" }

\* the texts of at most MaxLines of these lines
TablePageTexts ==
    UNION { { Join(ls, "\n") : ls \in [1..n -> TableLineCatalogue] } :
            n \in 1..MaxLines }

\* one page of such text under the default settings
InitTableRuns ==
    /\ \E text \in TablePageTexts :
          IngestStart(<<RawPage(text, <<>>, NoTabs, <<>>)>>, DefaultChunkSize,
                      DefaultChunkOverlap, DefaultMinImageSize)
    /\ RetrieverIdle
    /\ QueryIdle
    /\ IndexingIdle

SpecTableRuns == InitTableRuns /\ [][IngestNext]_vars

\* table.extract() results
TableData1 == << <<"Item", "Amount">>, <<"Cash", "100">> >>

TableData2 == << <<"Rate">> >>

Found(data) == [raises |-> FALSE, data |-> data]

\* what find_tables() gives for a page
TabsCatalogue ==
    { NoTabs,
      [raises |-> FALSE, tables |-> <<Found(TableData1), Found(TableData2)>>],
      [raises |-> FALSE, tables |-> <<Found(<<>>), Found(TableData2)>>] }

\* page texts of multi-page documents
PageTexts ==
    { "Assets: 100\nBalance Sheet\nLiabilities: 40",
      "Hi.\nRates rose.\nAssets: 100",
      "A | B | C | D | E | F",
      "" }

PageCatalogue ==
    { RawPage(text, <<>>, tabs, <<>>) : text \in PageTexts, tabs \in TabsCatalogue }

DocSettings ==
    { <<1, 1>>, <<DefaultChunkSize, DefaultChunkOverlap>> }

\* documents of at most MaxPages pages with text and tables
InitChunkDoc ==
    /\ \E n \in 1..MaxPages : \E d \in [1..n -> PageCatalogue] :
       \E cfg \in DocSettings :
          IngestStart(d, cfg[1], cfg[2], DefaultMinImageSize)
    /\ RetrieverIdle
    /\ QueryIdle
    /\ IndexingIdle

SpecChunkDoc == InitChunkDoc /\ [][IngestNext]_vars

\* a table whose extract() raises
Raising == [raises |-> TRUE, data |-> <<>>]

\* find_tables() results with failures: the detector raises, the first
\* table's extraction raises, the second one's raises, nothing raises
TableFailureCatalogue ==
    { [raises |-> TRUE, tables |-> <<>>],
      [raises |-> FALSE, tables |-> <<Raising>>],
      [raises |-> FALSE, tables |-> <<Found(TableData1), Raising>>],
      [raises |-> FALSE, tables |-> <<Found(TableData1)>>],
      NoTabs }

\* pages with text, with or without an image, and such tables
FailingPageCatalogue ==
    { RawPage("Assets: 100", il, tabs, <<>>) :
        il \in { <<>>, <<[status |-> "ok", width |-> 150, height |-> 120]>> },
        tabs \in TableFailureCatalogue }

\* documents of at most MaxPages such pages
InitCrackTables ==
    /\ \E n \in 1..MaxPages : \E d \in [1..n -> FailingPageCatalogue] :
          IngestStart(d, DefaultChunkSize, DefaultChunkOverlap,
                      DefaultMinImageSize)
    /\ RetrieverIdle
    /\ QueryIdle
    /\ IndexingIdle

SpecCrackTables == InitCrackTables /\ [][IngestNext]_vars

\* pixel sizes around the minimum
Widths == {50, 99, 100, 150}

Heights == {50, 99, 100, 120}

\* the embedded images of a page: the resource is missing ("none"), does not
\* decode ("corrupt") or decodes to width x height ("ok")
ImageCatalogue ==
    { [status |-> "none", width |-> 0, height |-> 0],
      [status |-> "corrupt", width |-> 0, height |-> 0] }
    \cup { [status |-> "ok", width |-> w, height |-> h] : w \in Widths, h \in Heights }

\* one page with at most MaxImages embedded images
InitCracker ==
    /\ \E n \in 0..MaxImages : \E il \in [1..n -> ImageCatalogue] :
       \E blocks \in { <<>>, <<"Net income", "Figure 1: Rates">> } :
       \E min_size \in {DefaultMinImageSize, 120} :
          IngestStart(<<RawPage("Assets: 100", il, NoTabs, blocks)>>,
                      DefaultChunkSize, DefaultChunkOverlap, min_size)
    /\ RetrieverIdle
    /\ QueryIdle
    /\ IndexingIdle

SpecCracker == InitCracker /\ [][IngestNext]_vars

(***************************************************************************)
(* RAGPipeline.ingest after chunking: embedding and indexing               *)
(***************************************************************************)
\* the embedding the service computes for an input
Vec(input) == [kind |-> "vector", of |-> input]

\* [0.0] * self.dimension
ZeroVector == [kind |-> "zero"]

\* all_images: the images of the pages, in page order
RECURSIVE AllImages(_)
AllImages(ps) ==
    IF ps = <<>> THEN <<>>
    ELSE AllImages(SubSeq(ps, 1, Len(ps) - 1)) \o ps[Len(ps)].images

\* ImageEmbedder.embed_batch: an image whose embed_image raises gets the
\* zero vector, failing being the positions at which it raises
ImageEmbedBatch(images, failing) ==
    [ i \in DOMAIN images |->
        IF i \in failing THEN ZeroVector
        ELSE Vec(<<images[i].page_number, images[i].image_index>>) ]

\* TextEmbedder.embed_batch when no request raises
TextEmbedBatch(texts) == [ i \in DOMAIN texts |-> Vec(texts[i]) ]

\* step 5 of ingest: the documents for the index, text chunks first
TextDocs(chunks, embeddings, fname) ==
    [ i \in 1..Min(Len(chunks), Len(embeddings)) |->
        [ id |-> chunks[i].chunk_id,
          content_type |-> "text",
          page_number |-> chunks[i].page_number,
          source_document |-> fname,
          vector |-> embeddings[i] ] ]

ImageDocs(images, embeddings, fname) ==
    [ i \in 1..Min(Len(images), Len(embeddings)) |->
        [ id |-> fname \o "_img_p" \o ToString(images[i].page_number)
                       \o "_" \o ToString(images[i].image_index),
          content_type |-> "image",
          page_number |-> images[i].page_number,
          source_document |-> fname,
          vector |-> embeddings[i] ] ]

\* step 3: embed_batch over the chunk contents
EmbedTexts ==
    /\ ipc = "chunked"
    /\ text_embeddings' =
          TextEmbedBatch([i \in DOMAIN all_chunks |-> all_chunks[i].content])
    /\ ipc' = "embed_images"
    /\ UNCHANGED << doc, filename, min_image_size, chunk_size, chunk_overlap,
                    page_num, pages, page_pos, all_chunks, origins, chunk_index >>
    /\ UNCHANGED << image_embeddings, search_docs, search_index, upload_pos,
                    summary >>
    /\ UNCHANGED << rvars, qvars >>

\* step 3 when an embeddings request raises: embed_batch has no handler and
\* neither has ingest
EmbedTextsRaises ==
    /\ ipc = "chunked"
    /\ all_chunks # <<>>
    /\ ipc' = "embed_failed"
    /\ UNCHANGED << doc, filename, min_image_size, chunk_size, chunk_overlap,
                    page_num, pages, page_pos, all_chunks, origins, chunk_index >>
    /\ UNCHANGED << xvars, rvars, qvars >>

\* steps 4 and 5: the image embeddings, then the documents for the index
EmbedImages ==
    /\ ipc = "embed_images"
    /\ \E failing \in SUBSET DOMAIN AllImages(pages) :
          /\ image_embeddings' = ImageEmbedBatch(AllImages(pages), failing)
          /\ search_docs' = TextDocs(all_chunks, text_embeddings, filename)
                            \o ImageDocs(AllImages(pages), image_embeddings',
                                         filename)
    /\ ipc' = "index"
    /\ UNCHANGED << doc, filename, min_image_size, chunk_size, chunk_overlap,
                    page_num, pages, page_pos, all_chunks, origins, chunk_index >>
    /\ UNCHANGED << text_embeddings, search_index, upload_pos, summary >>
    /\ UNCHANGED << rvars, qvars >>

\* batch_size of upload_documents
BatchSize == 100

\* the documents of a batch the service takes: those whose IndexingResult
\* has succeeded = True, in order
AcceptedDocuments(batch, rejected) ==
    LET kept == SelectSeq([i \in DOMAIN batch |-> i],
                          LAMBDA i : i \notin rejected)
    IN  [k \in DOMAIN kept |-> batch[kept[k]]]

\* the documents of a batch the service may reject: none, the last one, all
RejectedSets(batch) == { {}, {Len(batch)}, DOMAIN batch }

\* one pass of the loop of upload_documents: the batch
\* documents[i:i + batch_size] is sent; the per-document results are counted
\* for the log and nothing else
UploadBatch ==
    /\ ipc = "index"
    /\ upload_pos < Len(search_docs)
    /\ LET batch == SubSeq(search_docs, upload_pos + 1,
                           Min(upload_pos + BatchSize, Len(search_docs)))
       IN  /\ \E rejected \in RejectedSets(batch) :
                 search_index' = search_index
                                 \o AcceptedDocuments(batch, rejected)
           /\ upload_pos' = upload_pos + Len(batch)
    /\ UNCHANGED << ipc, doc, filename, min_image_size, chunk_size,
                    chunk_overlap, page_num, pages, page_pos, all_chunks,
                    origins, chunk_index >>
    /\ UNCHANGED << text_embeddings, image_embeddings, search_docs, summary >>
    /\ UNCHANGED << rvars, qvars >>

\* the upload request of a batch raises: upload_documents has no handler and
\* neither has ingest; what earlier batches uploaded stays
UploadDocumentsRaises ==
    /\ ipc = "index"
    /\ upload_pos < Len(search_docs)
    /\ ipc' = "upload_failed"
    /\ UNCHANGED << doc, filename, min_image_size, chunk_size, chunk_overlap,
                    page_num, pages, page_pos, all_chunks, origins, chunk_index >>
    /\ UNCHANGED << xvars, rvars, qvars >>

\* the loop of upload_documents is over: ingest builds its summary from the
\* lengths of its lists and returns it
UploadDocuments ==
    /\ ipc = "index"
    /\ upload_pos >= Len(search_docs)
    /\ summary' = [ text_chunks |-> Len(all_chunks),
                    images_indexed |-> Len(AllImages(pages)),
                    total_documents_indexed |-> Len(search_docs) ]
    /\ ipc' = "ingested"
    /\ UNCHANGED << doc, filename, min_image_size, chunk_size, chunk_overlap,
                    page_num, pages, page_pos, all_chunks, origins, chunk_index >>
    /\ UNCHANGED << text_embeddings, image_embeddings, search_docs,
                    search_index, upload_pos >>
    /\ UNCHANGED << rvars, qvars >>

IngestAllNext ==
    \/ IngestNext
    \/ EmbedTexts
    \/ EmbedTextsRaises
    \/ EmbedImages
    \/ UploadBatch
    \/ UploadDocuments
    \/ UploadDocumentsRaises

\* pages with a line of text, up to MaxImages images and one table or none
IngestPageCatalogue ==
    { RawPage("Assets: 100",
              [i \in 1..n |-> [status |-> "ok", width |-> 150, height |-> 120]],
              tabs, <<>>) :
        n \in 0..MaxImages,
        tabs \in { NoTabs, [raises |-> FALSE, tables |-> <<Found(TableData1)>>] } }

\* documents of at most MaxPages such pages, ingested under the defaults
InitIngest ==
    /\ \E n \in 1..MaxPages : \E d \in [1..n -> IngestPageCatalogue] :
          IngestStart(d, DefaultChunkSize, DefaultChunkOverlap,
                      DefaultMinImageSize)
    /\ RetrieverIdle
    /\ QueryIdle
    /\ IndexingIdle

SpecIngest == InitIngest /\ [][IngestAllNext]_vars

(***************************************************************************)
(* HybridRetriever                                                         *)
(***************************************************************************)
\* k = top_k or self.top_k : None and 0 are both falsy
EffectiveK(tk) == IF tk = <<>> \/ tk[1] = 0 THEN DefaultTopK ELSE tk[1]

\* the result count asked of the image query
ImageK(k) == Max(2, k \div 2)

\* The document the index holds under an id, as far as the two queries select
\* it; the page number stands with the id.  An optional field is <<>> when
\* the result has no value for it (result.get gives None), else <<value>>.
IndexEntry(id) ==
    [ content |-> IF id = 1 THEN "Assets: 100" ELSE "Rates rose.",
      page_number |-> id,
      source_document |-> "q3.pdf",
      section_title |-> IF id = 1 THEN "Balance Sheet" ELSE "",
      image_caption |-> IF id = 2 THEN <<"Figure 1: Rates">> ELSE <<>>,
      image_base64 |-> IF id = 3 THEN <<>> ELSE <<"aW1n">> ]

\* a RetrievedChunk built from one search result: the text query selects no
\* image field and leaves the dataclass defaults, the image query sets
\* section_title to ""
RetrievedChunk(hit, ctype) ==
    LET result == IndexEntry(hit[1])
    IN  [ id |-> hit[1],
          score |-> hit[2],
          content_type |-> ctype,
          content |-> result.content,
          page_number |-> result.page_number,
          source_document |-> result.source_document,
          section_title |-> IF ctype = "text" THEN result.section_title ELSE "",
          image_base64 |-> IF ctype = "image" THEN result.image_base64 ELSE <<>>,
          image_caption |-> IF ctype = "image" THEN result.image_caption ELSE <<>> ]

\* the responses of at most n hits the search service can give
Responses(n) ==
    UNION { [1..m -> HitCatalogue] : m \in 0..Min(n, MaxHits) }

ToChunks(resp, ctype) ==
    [i \in 1..Len(resp) |-> RetrievedChunk(resp[i], ctype)]

\* (mutant) insertion for an ascending sort
RECURSIVE InsertAsc(_, _)
InsertAsc(sorted, r) ==
    IF sorted = <<>> THEN <<r>>
    ELSE IF Head(sorted).score <= r.score
         THEN <<Head(sorted)>> \o InsertAsc(Tail(sorted), r)
         ELSE <<r>> \o sorted

\* (mutant) sorted(results, key=...) without reverse=True
RECURSIVE SortByScoreAsc(_)
SortByScoreAsc(s) ==
    IF s = <<>> THEN <<>>
    ELSE InsertAsc(SortByScoreAsc(SubSeq(s, 1, Len(s) - 1)), s[Len(s)])

\* (mutant) an insertion that puts a result before the results of its score
RECURSIVE InsertDescBeforeTies(_, _)
InsertDescBeforeTies(sorted, r) ==
    IF sorted = <<>> THEN <<r>>
    ELSE IF Head(sorted).score > r.score
         THEN <<Head(sorted)>> \o InsertDescBeforeTies(Tail(sorted), r)
         ELSE <<r>> \o sorted

\* list.insert keeping equal scores in arrival order
RECURSIVE InsertDesc(_, _)
InsertDesc(sorted, r) ==
    IF sorted = <<>> THEN <<r>>
    ELSE IF Head(sorted).score >= r.score
         THEN <<Head(sorted)>> \o InsertDesc(Tail(sorted), r)
         ELSE <<r>> \o sorted

\* sorted(results, key=lambda x: x.score, reverse=True): stable
RECURSIVE SortByScoreDesc(_)
SortByScoreDesc(s) ==
    IF s = <<>> THEN <<>>
    ELSE InsertDesc(SortByScoreDesc(SubSeq(s, 1, Len(s) - 1)), s[Len(s)])

\* (mutant) the seen_ids loop without seen_ids.add(r.id)
DedupNoSeenAdd(s, seen_ids) == SelectSeq(s, LAMBDA r : r.id \notin seen_ids)

\* the seen_ids loop: the first occurrence of each id is kept
RECURSIVE Dedup(_, _)
Dedup(s, seen_ids) ==
    IF s = <<>> THEN <<>>
    ELSE IF Head(s).id \in seen_ids
         THEN Dedup(Tail(s), seen_ids)
         ELSE <<Head(s)>> \o Dedup(Tail(s), seen_ids \cup {Head(s).id})

\* (mutant) the comparison turned around
BelowThreshold(r) == r.score <= SimilarityThreshold

AboveThreshold(r) == r.score >= SimilarityThreshold

\* [r for r in unique_results if r.score >= self.similarity_threshold]
FilterByThreshold(s) == SelectSeq(s, AboveThreshold)

\* s[:k] of a Python list
SliceTo(s, k) ==
    IF k >= 0 THEN SubSeq(s, 1, Min(k, Len(s)))
    ELSE SubSeq(s, 1, Max(0, Len(s) + k))

RetrieverInit ==
    /\ IngestIdle
    /\ QueryIdle
    /\ IndexingIdle
    /\ rpc = "start"
    /\ top_k \in TopKValues
    /\ include_images \in BOOLEAN
    /\ text_results = <<>>
    /\ image_results = <<>>
    /\ image_failed = FALSE
    /\ search_calls = <<>>
    /\ embed_calls = <<>>
    /\ results = <<>>
    /\ unique_results = <<>>
    /\ filtered = <<>>
    /\ returned = <<>>

\* _hybrid_text_search returns the service's hits as text chunks
HybridTextSearch ==
    /\ rpc = "start"
    /\ \E resp \in Responses(EffectiveK(top_k)) :
          /\ text_results' = ToChunks(resp, "text")
          /\ results' = ToChunks(resp, "text")
    /\ search_calls' = Append(search_calls,
                              [kind |-> "text", top |-> EffectiveK(top_k)])
    /\ embed_calls' = Append(embed_calls, "text")
    /\ rpc' = "text"
    /\ UNCHANGED << top_k, include_images, image_results, image_failed,
                    unique_results, filtered, returned >>
    /\ UNCHANGED << ivars, qvars, xvars >>

\* the text embedding or the text query raises: nothing catches it
HybridTextSearchRaises ==
    /\ rpc = "start"
    /\ \E at \in {"embed", "search"} :
          search_calls' = IF at = "search"
                          THEN Append(search_calls,
                                 [kind |-> "text", top |-> EffectiveK(top_k)])
                          ELSE search_calls
    /\ embed_calls' = Append(embed_calls, "text")
    /\ rpc' = "raised"
    /\ UNCHANGED << top_k, include_images, text_results, image_results,
                    image_failed, results, unique_results, filtered, returned >>
    /\ UNCHANGED << ivars, qvars, xvars >>

\* include_images: _image_search returns the service's hits as image chunks
ImageSearch ==
    /\ rpc = "text"
    /\ include_images
    /\ \E resp \in Responses(ImageK(EffectiveK(top_k))) :
          /\ image_results' = ToChunks(resp, "image")
          /\ results' = results \o ToChunks(resp, "image")
    /\ search_calls' = Append(search_calls,
                         [kind |-> "image", top |-> ImageK(EffectiveK(top_k))])
    /\ embed_calls' = Append(embed_calls, "image")
    /\ rpc' = "merge"
    /\ UNCHANGED << top_k, include_images, text_results, image_failed,
                    unique_results, filtered, returned >>
    /\ UNCHANGED << ivars, qvars, xvars >>

\* (mutant) _image_search without its try / except: the exception leaves
\* retrieve
ImageSearchFailsUncaught ==
    /\ rpc = "text"
    /\ include_images
    /\ \E at \in {"embed", "search"} :
          search_calls' = IF at = "search"
                          THEN Append(search_calls,
                                 [kind |-> "image",
                                  top |-> ImageK(EffectiveK(top_k))])
                          ELSE search_calls
    /\ image_failed' = TRUE
    /\ embed_calls' = Append(embed_calls, "image")
    /\ rpc' = "raised"
    /\ UNCHANGED << top_k, include_images, text_results, image_results,
                    results, unique_results, filtered, returned >>
    /\ UNCHANGED << ivars, qvars, xvars >>

\* include_images: the image-space embedding or the image query raises and
\* _image_search returns []
ImageSearchFails ==
    /\ rpc = "text"
    /\ include_images
    /\ \E at \in {"embed", "search"} :
          search_calls' = IF at = "search"
                          THEN Append(search_calls,
                                 [kind |-> "image",
                                  top |-> ImageK(EffectiveK(top_k))])
                          ELSE search_calls
    /\ image_results' = <<>>
    /\ image_failed' = TRUE
    /\ embed_calls' = Append(embed_calls, "image")
    /\ rpc' = "merge"
    /\ UNCHANGED << top_k, include_images, text_results, results,
                    unique_results, filtered, returned >>
    /\ UNCHANGED << ivars, qvars, xvars >>

\* not include_images: the image search is skipped
SkipImageSearch ==
    /\ rpc = "text"
    /\ ~include_images
    /\ UNCHANGED embed_calls
    /\ rpc' = "merge"
    /\ UNCHANGED << top_k, include_images, text_results, image_results,
                    image_failed, search_calls, results, unique_results,
                    filtered, returned >>
    /\ UNCHANGED << ivars, qvars, xvars >>

\* steps 3 and 4 of retrieve and its return
MergeAndReturn ==
    /\ rpc = "merge"
    /\ unique_results' = Dedup(SortByScoreDesc(results), {})
    /\ filtered' = FilterByThreshold(unique_results')
    /\ returned' = SliceTo(filtered', EffectiveK(top_k))
    /\ UNCHANGED embed_calls
    /\ rpc' = "done"
    /\ UNCHANGED << top_k, include_images, text_results, image_results,
                    image_failed, search_calls, results >>
    /\ UNCHANGED << ivars, qvars, xvars >>

RetrieverNext ==
    \/ HybridTextSearch
    \/ HybridTextSearchRaises
    \/ ImageSearch
    \/ ImageSearchFails
    \/ SkipImageSearch
    \/ MergeAndReturn

SpecRetriever == RetrieverInit /\ [][RetrieverNext]_vars

(***************************************************************************)
(* The query path: query_documents, RAGPipeline.query and                   *)
(* MultimodalGenerator.generate around HybridRetriever.retrieve            *)
(***************************************************************************)
\* QueryRequest.top_k: ge=1, le=20, default 5
RequestTopKValues == (1..MaxTopK) \cup {DefaultTopK}

QueryRequests ==
    [top_k : RequestTopKValues, include_images : BOOLEAN]

\* the fixed answer of RAGPipeline.query when nothing was retrieved
NoInformationAnswer == "I couldn't find relevant information"

\* (mutant) `if not chunks` never taken
NoChunksNever(chunks) == FALSE

\* `if not chunks`
NoChunks(chunks) == chunks = <<>>

\* sum(1 for c in retrieved_chunks if c.content_type == "image")
ImagesUsed(chunks) ==
    Cardinality({ i \in DOMAIN chunks : chunks[i].content_type = "image" })

\* _extract_citations: one citation for each chunk whose page the answer
\* names; a result's page is stood for by its id, mentioned being the pages
\* named in the answer
ExtractCitations(mentioned, chunks) ==
    SelectSeq(chunks, LAMBDA c : c.id \in mentioned)

\* the question of the request
QueryText == "What is the CET1 ratio?"

\* `if x` for an optional string: None and "" are both falsy
Truthy(x) == x # <<>> /\ x[1] # ""

\* the loop of _build_context over the text chunks; the dash of the section
\* part is U+2014 in the source
RECURSIVE TextContext(_)
TextContext(chunks) ==
    IF chunks = <<>> THEN ""
    ELSE LET chunk == Head(chunks)
             source_info == "[Page " \o ToString(chunk.page_number) \o ", "
                                     \o chunk.source_document \o "]"
             section == IF chunk.section_title # ""
                        THEN " -- " \o chunk.section_title ELSE ""
         IN  (IF chunk.content_type = "text"
              THEN source_info \o section \o ":\n" \o chunk.content \o "\n\n"
              ELSE "")
             \o TextContext(Tail(chunks))

\* the loop of _build_context over the images
RECURSIVE ImageContext(_)
ImageContext(chunks) ==
    IF chunks = <<>> THEN <<>>
    ELSE LET chunk == Head(chunks)
             caption == IF Truthy(chunk.image_caption)
                        THEN chunk.image_caption[1]
                        ELSE "Image from page " \o ToString(chunk.page_number)
         IN  (IF chunk.content_type = "image" /\ Truthy(chunk.image_base64)
              THEN << [ type |-> "text",
                        text |-> "\n[Image from Page "
                                 \o ToString(chunk.page_number) \o ": "
                                 \o caption \o "]" ],
                      [ type |-> "image_url",
                        image_url |->
                            [ url |-> "data:image/png;base64,"
                                      \o chunk.image_base64[1],
                              detail |-> "high" ] ] >>
              ELSE <<>>)
             \o ImageContext(Tail(chunks))

\* _build_context
BuildContext(query, chunks) ==
    << [ type |-> "text",
         text |-> "CONTEXT FROM BANKING DOCUMENTS:\n\n" \o TextContext(chunks) ] >>
    \o ImageContext(chunks)
    \o << [ type |-> "text",
            text |-> "\nQUESTION: " \o query
                     \o "\n\nProvide a detailed answer based on the context above." ] >>

\* a request arrives; nothing else is going on
QueryStart(req) ==
    /\ qpc = "request"
    /\ request = req
    /\ generate_calls = <<>>
    /\ content_parts = <<>>
    /\ response = <<>>

\* query_documents calls pipeline.query(request.query, top_k=request.top_k),
\* which calls retriever.retrieve(question, top_k=top_k): include_images is
\* not passed on and takes retrieve's default, True
QueryDocuments ==
    /\ qpc = "request"
    /\ rpc = "idle"
    /\ qpc' = "retrieve"
    /\ rpc' = "start"
    /\ top_k' = <<request.top_k>>
    /\ include_images' = TRUE
    /\ UNCHANGED << text_results, image_results, image_failed, search_calls,
                    embed_calls, results, unique_results, filtered, returned >>
    /\ UNCHANGED << request, generate_calls, content_parts, response >>
    /\ UNCHANGED << ivars, xvars >>

\* (mutant) query catching the exception of retrieve and answering
QueryRetrieveRaisesAnswered ==
    /\ qpc = "retrieve"
    /\ rpc = "raised"
    /\ response' = [ answer |-> NoInformationAnswer,
                     citations |-> <<>>,
                     chunks_used |-> 0,
                     images_used |-> 0 ]
    /\ qpc' = "answered"
    /\ UNCHANGED << request, generate_calls, content_parts >>
    /\ UNCHANGED << rvars, ivars, xvars >>

\* retrieve raised: neither query nor query_documents catches, the request
\* ends in an error and no QueryResponse is built
QueryRetrieveRaises ==
    /\ qpc = "retrieve"
    /\ rpc = "raised"
    /\ qpc' = "error"
    /\ UNCHANGED << request, generate_calls, content_parts, response >>
    /\ UNCHANGED << rvars, ivars, xvars >>

\* retrieve returned no chunk: the fixed answer, images_used taking the
\* default of QueryResponse
QueryNoChunks ==
    /\ qpc = "retrieve"
    /\ rpc = "done"
    /\ NoChunks(returned)
    /\ response' = [ answer |-> NoInformationAnswer,
                     citations |-> <<>>,
                     chunks_used |-> 0,
                     images_used |-> 0 ]
    /\ qpc' = "answered"
    /\ UNCHANGED << request, generate_calls, content_parts >>
    /\ UNCHANGED << rvars, ivars, xvars >>

\* retrieve returned chunks: generator.generate answers from them
QueryGenerate ==
    /\ qpc = "retrieve"
    /\ rpc = "done"
    /\ ~NoChunks(returned)
    /\ generate_calls' = Append(generate_calls, returned)
    /\ content_parts' = BuildContext(QueryText, returned)
    /\ \E mentioned \in { {}, { returned[i].id : i \in DOMAIN returned } } :
          response' = [ answer |-> "generated",
                        citations |-> ExtractCitations(mentioned, returned),
                        chunks_used |-> Len(returned),
                        images_used |-> ImagesUsed(returned) ]
    /\ qpc' = "answered"
    /\ UNCHANGED request
    /\ UNCHANGED << rvars, ivars, xvars >>

\* retrieve returned chunks and the chat completion raises
QueryGenerateRaises ==
    /\ qpc = "retrieve"
    /\ rpc = "done"
    /\ ~NoChunks(returned)
    /\ generate_calls' = Append(generate_calls, returned)
    /\ content_parts' = BuildContext(QueryText, returned)
    /\ qpc' = "error"
    /\ UNCHANGED << request, response >>
    /\ UNCHANGED << rvars, ivars, xvars >>

\* the steps of a request; retrieve is always entered with include_images
\* true, so its step that skips the image search is not among them
QueryNext ==
    \/ QueryDocuments
    \/ HybridTextSearch
    \/ HybridTextSearchRaises
    \/ ImageSearch
    \/ ImageSearchFails
    \/ MergeAndReturn
    \/ QueryRetrieveRaises
    \/ QueryNoChunks
    \/ QueryGenerate
    \/ QueryGenerateRaises

\* one request through the user-facing query operation
InitQuery ==
    /\ \E req \in QueryRequests : QueryStart(req)
    /\ RetrieverIdle
    /\ IngestIdle
    /\ IndexingIdle

SpecQuery == InitQuery /\ [][QueryNext]_vars

(***************************************************************************)
(* Properties of the embedding steps of RAGPipeline.ingest                 *)
(***************************************************************************)
\* one vector per input, in input order, each the input's or the zero vector
OneVectorPerInput(embeddings, inputs) ==
    /\ Len(embeddings) = Len(inputs)
    /\ \A i \in DOMAIN inputs : embeddings[i] \in {Vec(inputs[i]), ZeroVector}

\* the references the image embedding is taken of
ImageInputs ==
    [ i \in DOMAIN AllImages(pages) |->
        << AllImages(pages)[i].page_number, AllImages(pages)[i].image_index >> ]

\* C17: an embedding failure during a batch call of ingestion, text batch or
\* image batch, does not abort the batch: embed_batch returns one vector per
\* input in input order, the zero vector standing in for a failing item, and
\* ingestion goes on to indexing.
C17_EmbeddingFailureDegrades ==
    /\ ipc # "embed_failed"
    /\ ipc \in {"embed_images", "index", "ingested", "upload_failed"} =>
          OneVectorPerInput(text_embeddings,
                            [i \in DOMAIN all_chunks |-> all_chunks[i].content])
    /\ ipc \in {"index", "ingested", "upload_failed"} =>
          /\ OneVectorPerInput(image_embeddings, ImageInputs)
          /\ Len(search_docs) = Len(all_chunks) + Len(AllImages(pages))

\* C17 for the image batch alone
C17_ImageFailureDegrades ==
    ipc \in {"index", "ingested", "upload_failed"} =>
        /\ OneVectorPerInput(image_embeddings, ImageInputs)
        /\ Len(search_docs) = Len(all_chunks) + Len(AllImages(pages))

\* the second of two images failed to embed and the document was indexed
C17_Witness ==
    /\ ipc = "ingested"
    /\ Len(image_embeddings) = 2
    /\ image_embeddings[1] # ZeroVector
    /\ image_embeddings[2] = ZeroVector
    /\ Len(search_index) = Len(all_chunks) + 2

\* ingest has ended, with its summary or in an error
IngestEnded == ipc \in {"ingested", "embed_failed", "upload_failed"}

\* C27: ingest uploads to the search index only after extraction, chunking,
\* text embedding and image embedding have all completed, and an ingest call
\* that ends in an error leaves the index without any entry of that call:
\* either all text-chunk and image entries of the file are uploaded and the
\* summary reports total_documents_indexed = text_chunks + images_indexed,
\* or none is.
C27_UploadLastAndAllOrNothing ==
    /\ (upload_pos > 0 \/ search_index # <<>>) =>
          /\ ipc \in {"index", "ingested", "upload_failed"}
          /\ OneVectorPerInput(text_embeddings,
                               [i \in DOMAIN all_chunks |-> all_chunks[i].content])
          /\ OneVectorPerInput(image_embeddings, ImageInputs)
    /\ ipc \in {"embed_failed", "upload_failed"} => search_index = <<>>
    /\ IngestEnded =>
          \/ search_index = <<>>
          \/ /\ search_index = search_docs
             /\ Len(search_docs) = Len(all_chunks) + Len(AllImages(pages))
             /\ summary # <<>>
             /\ summary.text_chunks = Len(all_chunks)
             /\ summary.images_indexed = Len(AllImages(pages))
             /\ summary.total_documents_indexed
                  = summary.text_chunks + summary.images_indexed

\* C27 for the files of at most BatchSize index entries, but for the
\* documents the service rejects: the upload comes last, an error leaves no
\* entry, and a returned summary reports every prepared document
C27_HoldsApartFromRejectedDocuments ==
    /\ (upload_pos > 0 \/ search_index # <<>>) =>
          /\ ipc \in {"index", "ingested", "upload_failed"}
          /\ OneVectorPerInput(text_embeddings,
                               [i \in DOMAIN all_chunks |-> all_chunks[i].content])
          /\ OneVectorPerInput(image_embeddings, ImageInputs)
    /\ ipc \in {"embed_failed", "upload_failed"} => search_index = <<>>
    /\ ipc = "ingested" =>
          /\ summary.text_chunks = Len(all_chunks)
          /\ summary.images_indexed = Len(AllImages(pages))
          /\ summary.total_documents_indexed = Len(search_docs)
          /\ summary.total_documents_indexed
               = summary.text_chunks + summary.images_indexed
          /\ Len(search_index) <= Len(search_docs)

\* a file of two text chunks and two images is indexed whole
C27_Witness ==
    /\ ipc = "ingested"
    /\ search_index = search_docs
    /\ summary = [ text_chunks |-> 2, images_indexed |-> 2,
                   total_documents_indexed |-> 4 ]

(***************************************************************************)
(* Properties of the query path                                            *)
(***************************************************************************)
\* an image-space embedding call or an image query has been issued
ImageSearchIssued ==
    \/ \E i \in DOMAIN embed_calls : embed_calls[i] = "image"
    \/ \E i \in DOMAIN search_calls : search_calls[i].kind = "image"

\* C13: when the text embedding call or the text hybrid search fails,
\* retrieve fails with that error: it returns no result list and does not
\* fall back to image results, and the caller of RAGPipeline.query gets an
\* error, not an answer.
C13_TextFailurePropagates ==
    rpc = "raised" =>
        /\ returned = <<>>
        /\ results = <<>>
        /\ ~ImageSearchIssued
        /\ qpc \in {"retrieve", "error"}
        /\ response = <<>>
        /\ generate_calls = <<>>

\* the text query raised after the embedding succeeded and the request
\* ended in an error
C13_Witness ==
    /\ rpc = "raised"
    /\ qpc = "error"
    /\ embed_calls = <<"text">>
    /\ Len(search_calls) = 1
    /\ search_calls[1].kind = "text"

\* C18: when retrieval yields zero items, RAGPipeline.query returns the
\* fixed 'no relevant information' answer with empty citations and
\* chunks_used = 0 without calling the generation service, which is called
\* only when at least one item was retrieved.
C18_NoChunksGivesFixedAnswer ==
    /\ (rpc = "done" /\ returned = <<>>) =>
          /\ generate_calls = <<>>
          /\ qpc \in {"retrieve", "answered"}
          /\ qpc = "answered" =>
                /\ response.answer = NoInformationAnswer
                /\ response.citations = <<>>
                /\ response.chunks_used = 0
    /\ generate_calls # <<>> =>
          /\ rpc = "done"
          /\ returned # <<>>
          /\ generate_calls = <<returned>>
    /\ (qpc = "answered" /\ returned # <<>>) =>
          /\ generate_calls = <<returned>>
          /\ response.answer # NoInformationAnswer

\* the text search found two items, both under the threshold, and the
\* request got the fixed answer
C18_Witness ==
    /\ qpc = "answered"
    /\ Len(text_results) = 2
    /\ returned = <<>>
    /\ generate_calls = <<>>
    /\ response.answer = NoInformationAnswer

\* the items of one type among chunks, in retrieval order
ItemsOfType(chunks, ctype) == SelectSeq(chunks, LAMBDA c : c.content_type = ctype)

\* the '[Page N, source]' prefix of a retrieved item
PagePrefix(c) ==
    "[Page " \o ToString(c.page_number) \o ", " \o c.source_document \o "]"

\* parts is the content list the claim describes for chunks
ContentListAsDescribed(parts, chunks) ==
    LET text_items == ItemsOfType(chunks, "text")
        image_items == ItemsOfType(chunks, "image")
    IN  /\ Len(parts) = 1 + 2 * Len(image_items) + 1
        /\ parts[1].type = "text"
        /\ \A i \in DOMAIN text_items :
              Contains(parts[1].text, PagePrefix(text_items[i]))
        /\ Count(parts[1].text, "[") = Len(text_items)
        /\ \A j \in DOMAIN image_items :
              /\ parts[2 * j].type = "text"
              /\ Contains(parts[2 * j].text,
                          "[Image from Page "
                          \o ToString(image_items[j].page_number) \o ":")
              /\ parts[2 * j + 1].type = "image_url"
        /\ parts[Len(parts)].type = "text"
        /\ Contains(parts[Len(parts)].text, "QUESTION: " \o QueryText)

C21_HoldsWhenImagesCarryData ==
    ( /\ generate_calls # <<>>
      /\ \A i \in DOMAIN generate_calls[1] :
            generate_calls[1][i].content_type = "image"
            => Truthy(generate_calls[1][i].image_base64) )
    => ContentListAsDescribed(content_parts, generate_calls[1])

C19_NoImagesUnlessRequested ==
    (qpc # "none" /\ ~request.include_images) =>
        /\ ~ImageSearchIssued
        /\ \A i \in DOMAIN generate_calls :
              ImagesUsed(generate_calls[i]) = 0
        /\ qpc = "answered" => response.images_used = 0

\* a request with include_images = false has been answered from an image
C19_Witness ==
    /\ qpc = "answered"
    /\ ~request.include_images
    /\ response.answer = "generated"

\* C19 for retrieve itself: called with include_images = false it issues no
\* image query and returns no image
C19_RetrieveHonoursIncludeImages ==
    ~include_images =>
        /\ ~ImageSearchIssued
        /\ \A i \in DOMAIN returned : returned[i].content_type = "text"

(***************************************************************************)
(* Properties of SemanticChunker.chunk_document                            *)
(***************************************************************************)
\* the pages chunk_document has gone through
ChunkedPages == IF ipc \in {"chunk", "chunked"} THEN 1..(page_pos - 1) ELSE {}

\* the positions in all_chunks of the chunks of section run of page p
ChunksOfRun(p, run) ==
    { k \in DOMAIN all_chunks :
        /\ all_chunks[k].page_number = pages[p].page_number
        /\ origins[k].run = run }

\* C1: every text run classified as table-like is emitted as exactly one
\* chunk with has_table = true whose content is the whole run body, and no
\* chunk made by _chunk_with_overlap has has_table = true, whatever the
\* run's token estimate and chunk_size.
C1_TableRunsNeverSplit ==
    /\ \A p \in ChunkedPages :
          LET sections == SplitIntoSections(pages[p].text)
          IN  \A run \in DOMAIN sections :
                  (Strip(sections[run][2]) # "" /\ ContainsTable(sections[run][2]))
                  => /\ Cardinality(ChunksOfRun(p, run)) = 1
                     /\ \A k \in ChunksOfRun(p, run) :
                           /\ all_chunks[k].has_table
                           /\ all_chunks[k].content = sections[run][2]
    /\ \A k \in DOMAIN all_chunks :
          origins[k].via = "overlap" => ~all_chunks[k].has_table

\* a table-like run of three lines, far longer than chunk_size = 1, is one chunk
C1_Witness ==
    /\ ipc = "chunked"
    /\ chunk_size = 1
    /\ \E k \in DOMAIN all_chunks :
          /\ all_chunks[k].has_table
          /\ origins[k].via = "table_run"
          /\ all_chunks[k].content = "A | B | C\nA | B | C\nA | B | C"
          /\ all_chunks[k].token_count > chunk_size

\* C2: the chunk_id values of one chunk_document call are pairwise distinct;
\* text chunks carry {filename}_p{page}_c{chunk_index}, structured-table
\* chunks {filename}_p{page}_t{table_index}.
C2_ChunkIdsDistinct ==
    /\ \A i, j \in DOMAIN all_chunks :
          i # j => all_chunks[i].chunk_id # all_chunks[j].chunk_id
    /\ \A k \in DOMAIN all_chunks :
          LET c == all_chunks[k]
          IN  IF origins[k].via = "table"
              THEN \E n \in 0..9 :
                      /\ c.section_title = "Table " \o ToString(n + 1)
                      /\ c.chunk_id = filename \o "_p" \o ToString(c.page_number)
                                         \o "_t" \o ToString(n)
              ELSE c.chunk_id = filename \o "_p" \o ToString(c.page_number)
                                         \o "_c" \o ToString(c.chunk_index)

\* two pages, each with text chunks and with a table of the same table_index
C2_Witness ==
    /\ ipc = "chunked"
    /\ \E i, j \in DOMAIN all_chunks :
          /\ origins[i].via = "table" /\ origins[j].via = "table"
          /\ all_chunks[i].page_number = 1 /\ all_chunks[j].page_number = 2
          /\ all_chunks[i].section_title = all_chunks[j].section_title
    /\ \E i, j \in DOMAIN all_chunks :
          /\ origins[i].via # "table" /\ origins[j].via # "table"
          /\ all_chunks[i].page_number = 1 /\ all_chunks[j].page_number = 2
    /\ \E i, j \in DOMAIN all_chunks :
          /\ i # j
          /\ origins[i].via = "table" /\ origins[j].via = "table"
          /\ all_chunks[i].page_number = all_chunks[j].page_number

\* C20: the chunk at position i (0-based) of chunk_document's result has
\* chunk_index = i: the index starts at 0 and grows by one per emitted chunk
\* across pages and across text and table chunks; a page boundary does not
\* reset it and a skipped empty run does not advance it.
C20_ChunkIndexIsPosition ==
    /\ \A i \in DOMAIN all_chunks : all_chunks[i].chunk_index = i - 1
    /\ ipc \in {"chunk", "chunked"} => chunk_index = Len(all_chunks)

\* a first page with no text (its only run is skipped) and two tables, then
\* a page whose first text chunk has index 2
C20_Witness ==
    /\ ipc = "chunked"
    /\ Len(pages) = 2
    /\ pages[1].text = ""
    /\ Len(pages[1].tables) = 2
    /\ Len(all_chunks) >= 4
    /\ all_chunks[3].page_number = 2
    /\ origins[3].via # "table"
    /\ all_chunks[3].chunk_index = 2

\* the positions in all_chunks of the structured-table chunks of page p, in
\* emission order
RECURSIVE TablePositions(_, _)
TablePositions(p, k) ==
    IF k > Len(all_chunks) THEN <<>>
    ELSE IF all_chunks[k].page_number = pages[p].page_number
            /\ origins[k].via = "table"
         THEN <<k>> \o TablePositions(p, k + 1)
         ELSE TablePositions(p, k + 1)

\* C22: for each page chunk_document emits the text-run chunks first and then
\* exactly one chunk per structurally detected table of the page, in table
\* order, with has_table = true, section_title 'Table {table_index + 1}' and
\* the page's number; also when the page text is empty, and before any chunk
\* of the next page.
C22_TableChunksFollowTextRuns ==
    /\ \A i, j \in DOMAIN all_chunks :
          i < j =>
              /\ all_chunks[i].page_number <= all_chunks[j].page_number
              /\ ( /\ all_chunks[i].page_number = all_chunks[j].page_number
                   /\ origins[i].via = "table" )
                 => origins[j].via = "table"
    /\ \A p \in ChunkedPages :
          LET positions == TablePositions(p, 1)
              tables == pages[p].tables
          IN  /\ Len(positions) = Len(tables)
              /\ \A n \in DOMAIN tables :
                    LET c == all_chunks[positions[n]]
                    IN  /\ c.has_table
                        /\ c.section_title
                             = "Table " \o ToString(tables[n].table_index + 1)
                        /\ c.page_number = pages[p].page_number

\* a first page without text and with two tables, then a page with text and
\* the single table 'Table 2'
C22_Witness ==
    /\ ipc = "chunked"
    /\ Len(pages) = 2
    /\ pages[1].text = ""
    /\ Len(pages[1].tables) = 2
    /\ pages[2].text # ""
    /\ Len(pages[2].tables) = 1
    /\ all_chunks[1].section_title = "Table 1"
    /\ all_chunks[2].section_title = "Table 2"
    /\ origins[3].via # "table"
    /\ all_chunks[Len(all_chunks)].section_title = "Table 2"
    /\ all_chunks[Len(all_chunks)].page_number = 2

\* s ends with a non-empty window that t starts with
SharesTrailingWindow(s, t) ==
    \E w \in 1..Min(Len(s), Len(t)) :
        SubSeq(s, Len(s) - w + 1, Len(s)) = SubSeq(t, 1, w)

\* C7: with chunk_overlap > 0, when _chunk_with_overlap closes a sub-chunk of
\* more than one sentence, the next sub-chunk starts with a non-empty
\* trailing window of the closed one's sentences.
C7_ConsecutiveSubChunksOverlap ==
    \A k \in DOMAIN all_chunks :
        ( /\ k + 1 \in DOMAIN all_chunks
          /\ origins[k].via = "overlap"
          /\ origins[k + 1].via = "overlap"
          /\ origins[k].run = origins[k + 1].run
          /\ all_chunks[k].page_number = all_chunks[k + 1].page_number
          /\ chunk_overlap > 0
          /\ Len(origins[k].sentences) > 1 )
        => SharesTrailingWindow(origins[k].sentences, origins[k + 1].sentences)

\* C7 when the closed sub-chunk's token estimates sum to chunk_overlap or more
C7_HoldsWhenOverlapReached ==
    \A k \in DOMAIN all_chunks :
        ( /\ k + 1 \in DOMAIN all_chunks
          /\ origins[k].via = "overlap"
          /\ origins[k + 1].via = "overlap"
          /\ origins[k].run = origins[k + 1].run
          /\ all_chunks[k].page_number = all_chunks[k + 1].page_number
          /\ chunk_overlap > 0
          /\ Len(origins[k].sentences) > 1
          /\ LET sentences == SplitSentences(
                   SplitIntoSections(pages[1].text)[origins[k].run][2])
             IN  SumSeq([i \in DOMAIN origins[k].sentences |->
                           EstimateTokens(sentences[origins[k].sentences[i]])])
                 >= chunk_overlap )
        => SharesTrailingWindow(origins[k].sentences, origins[k + 1].sentences)

\* a closed sub-chunk of two sentences whose successor starts with its last one
C7_Witness ==
    /\ ipc = "chunked"
    /\ chunk_overlap > 0
    /\ \E k \in DOMAIN all_chunks :
          /\ k + 1 \in DOMAIN all_chunks
          /\ origins[k].via = "overlap" /\ origins[k + 1].via = "overlap"
          /\ Len(origins[k].sentences) = 2
          /\ origins[k + 1].sentences[1] = origins[k].sentences[2]

\* the sentence positions held by the sub-chunk at position k of all_chunks
SentencesOf(k) == { origins[k].sentences[i] : i \in DOMAIN origins[k].sentences }

\* C24: _chunk_with_overlap loses and reorders nothing: each sub-chunk is a
\* contiguous run of the run's sentences in original order, every sentence of
\* the run occurs in at least one sub-chunk, every sub-chunk after the first
\* contains a sentence that no earlier sub-chunk contains, and a sentence is
\* repeated only as part of the trailing overlap window of the immediately
\* preceding sub-chunk.
C24_OverlapLosesAndReordersNothing ==
    \A p \in ChunkedPages :
        \A run \in DOMAIN SplitIntoSections(pages[p].text) :
            LET ks == { k \in ChunksOfRun(p, run) : origins[k].via = "overlap" }
                sentences ==
                    SplitSentences(SplitIntoSections(pages[p].text)[run][2])
            IN  ks # {} =>
                /\ \A k \in ks :
                      LET s == origins[k].sentences
                      IN  /\ s # <<>>
                          /\ \A i \in DOMAIN s : s[i] \in DOMAIN sentences
                          /\ \A i \in 1..(Len(s) - 1) : s[i + 1] = s[i] + 1
                          /\ all_chunks[k].content
                               = Join([i \in DOMAIN s |-> sentences[s[i]]], " ")
                /\ \A n \in DOMAIN sentences : \E k \in ks : n \in SentencesOf(k)
                /\ \A k \in ks :
                      (k - 1) \in ks =>
                          \E n \in SentencesOf(k) :
                              \A h \in ks : h < k => n \notin SentencesOf(h)
                /\ \A k, h \in ks :
                      h < k =>
                          \A n \in SentencesOf(k) \cap SentencesOf(h) :
                              /\ n \in SentencesOf(k - 1)
                              /\ LET prev == origins[k - 1].sentences
                                     w == Cardinality(SentencesOf(k)
                                                      \cap SentencesOf(k - 1))
                                 IN  SubSeq(prev, Len(prev) - w + 1, Len(prev))
                                       = SubSeq(origins[k].sentences, 1, w)

\* a run of three sentences split into <<1, 2>> and <<2, 3>>: sentence 2 is
\* repeated as the trailing window, sentence 3 is new
C24_Witness ==
    /\ ipc = "chunked"
    /\ \E k \in DOMAIN all_chunks :
          /\ k + 1 \in DOMAIN all_chunks
          /\ origins[k].via = "overlap" /\ origins[k + 1].via = "overlap"
          /\ origins[k].run = origins[k + 1].run
          /\ origins[k].sentences = <<1, 2>>
          /\ origins[k + 1].sentences = <<2, 3>>

\* the summed token estimate of the sentences of the sub-chunk at position k
\* of all_chunks, a sub-chunk of section run of page p
SubChunkTokens(p, k) ==
    LET sentences ==
            SplitSentences(SplitIntoSections(pages[p].text)[origins[k].run][2])
    IN  SumSeq([i \in DOMAIN origins[k].sentences |->
                  EstimateTokens(sentences[origins[k].sentences[i]])])

\* C25: every sub-chunk produced by _chunk_with_overlap that holds more than
\* one sentence has a summed sentence token estimate of at most chunk_size;
\* only a sub-chunk of a single over-long sentence may exceed chunk_size.
C25_MultiSentenceWithinChunkSize ==
    \A p \in ChunkedPages :
        \A k \in DOMAIN all_chunks :
            ( /\ all_chunks[k].page_number = pages[p].page_number
              /\ origins[k].via = "overlap"
              /\ Len(origins[k].sentences) > 1 )
            => SubChunkTokens(p, k) <= chunk_size

\* C25 for the sub-chunks that are the first of their run or hold at least
\* two sentences the preceding sub-chunk does not hold
C25_HoldsBeyondWindowPlusOne ==
    \A p \in ChunkedPages :
        \A k \in DOMAIN all_chunks :
            ( /\ all_chunks[k].page_number = pages[p].page_number
              /\ origins[k].via = "overlap"
              /\ Len(origins[k].sentences) > 1
              /\ \/ k = 1
                 \/ origins[k - 1].via # "overlap"
                 \/ origins[k - 1].run # origins[k].run
                 \/ all_chunks[k - 1].page_number # all_chunks[k].page_number
                 \/ Cardinality(SentencesOf(k) \ SentencesOf(k - 1)) >= 2 )
            => SubChunkTokens(p, k) <= chunk_size

\* a sub-chunk of two sentences within chunk_size
C25_Witness ==
    /\ ipc = "chunked"
    /\ \E k \in DOMAIN all_chunks :
          /\ origins[k].via = "overlap"
          /\ Len(origins[k].sentences) = 2
          /\ SubChunkTokens(1, k) <= chunk_size

\* the lines the returned runs account for, in order: the title of a titled
\* run, then the lines of its body
RECURSIVE LinesOfSections(_)
LinesOfSections(sections) ==
    IF sections = <<>> THEN <<>>
    ELSE LET section == Head(sections)
             body == [i \in DOMAIN SplitLines(section[2]) |->
                        [kind |-> "body", text |-> SplitLines(section[2])[i]]]
         IN  (IF section[1] # ""
              THEN <<[kind |-> "title", text |-> section[1]]>> ELSE <<>>)
             \o body \o LinesOfSections(Tail(sections))

\* the runs account for every line of the text exactly once and in order, a
\* title being the stripped heading line
Lossless(text) ==
    LET lines == SplitLines(text)
        kept == LinesOfSections(SplitIntoSections(text))
    IN  /\ Len(kept) = Len(lines)
        /\ \A i \in DOMAIN kept :
              /\ kept[i].kind = "body" => kept[i].text = lines[i]
              /\ kept[i].kind = "title" =>
                    /\ IsSectionHeader(lines[i])
                    /\ kept[i].text = Strip(lines[i])

\* C26: _split_into_sections partitions the page text without loss: every
\* line of the input appears exactly once, as a line of exactly one run body
\* or as the title of exactly one returned run, in original order; a heading
\* line that is the last line of the page, or that directly follows another
\* heading, is not dropped.
C26_SectionsLoseNoLine ==
    \A p \in ChunkedPages : Lossless(pages[p].text)

\* C26 for the pages whose last line is not a heading line
C26_HoldsUnlessLastLineIsHeading ==
    \A p \in ChunkedPages :
        LET lines == SplitLines(pages[p].text)
        IN  ~IsSectionHeader(lines[Len(lines)]) => Lossless(pages[p].text)

\* a heading directly after a heading is kept, as a body line of the run the
\* first one opens
C26_Witness ==
    /\ ipc = "chunked"
    /\ pages[1].text = "Hi.\nBalance Sheet\nBalance Sheet"
    /\ SplitIntoSections(pages[1].text)
         = << <<"", "Hi.">>, <<"Balance Sheet", "Balance Sheet">> >>
    /\ Lossless(pages[1].text)
    /\ \E k \in DOMAIN all_chunks :
          /\ all_chunks[k].section_title = "Balance Sheet"
          /\ all_chunks[k].content = "Balance Sheet"

\* the lines after line i of a page up to the next heading line
RECURSIVE LinesUntilHeader(_, _)
LinesUntilHeader(lines, i) ==
    IF i > Len(lines) \/ IsSectionHeader(lines[i]) THEN <<>>
    ELSE <<lines[i]>> \o LinesUntilHeader(lines, i + 1)

\* C8: every line matching a heading pattern is a section boundary: it is
\* the section_title of the run made of the lines that follow it and is part
\* of no run body, also as the first line of the page; the page 'Balance
\* Sheet', 'Assets: 100', 'Liabilities: 40' gives a chunk titled 'Balance
\* Sheet' whose content is exactly the two following lines.
C8_HeadingsAreBoundaries ==
    \A p \in ChunkedPages :
        LET lines == SplitLines(pages[p].text)
            sections == SplitIntoSections(pages[p].text)
        IN  /\ \A run \in DOMAIN sections :
                  \A l \in DOMAIN SplitLines(sections[run][2]) :
                      ~IsSectionHeader(SplitLines(sections[run][2])[l])
            /\ \A i \in DOMAIN lines :
                  IsSectionHeader(lines[i]) =>
                      LET body == Join(LinesUntilHeader(lines, i + 1), "\n")
                      IN  Strip(body) # "" =>
                            /\ \E run \in DOMAIN sections :
                                  sections[run] = <<Strip(lines[i]), body>>
                            /\ \E k \in DOMAIN all_chunks :
                                  /\ all_chunks[k].page_number = pages[p].page_number
                                  /\ all_chunks[k].section_title = Strip(lines[i])
                                  /\ origins[k].via \in {"single", "table_run"}
                                     => all_chunks[k].content = body

\* the example of C8 has gone through chunk_document
C8_Witness ==
    /\ ipc = "chunked"
    /\ pages[1].text = "Balance Sheet\nAssets: 100\nLiabilities: 40"
    /\ chunk_size = DefaultChunkSize

\* C8 for the heading lines that follow a line of body text
C8_HoldsAfterBodyText ==
    \A p \in ChunkedPages :
        LET lines == SplitLines(pages[p].text)
            sections == SplitIntoSections(pages[p].text)
        IN  \A i \in DOMAIN lines :
                ( /\ IsSectionHeader(lines[i])
                  /\ i > 1
                  /\ ~IsSectionHeader(lines[i - 1]) ) =>
                    LET body == Join(LinesUntilHeader(lines, i + 1), "\n")
                    IN  Strip(body) # "" =>
                          /\ \E run \in DOMAIN sections :
                                sections[run] = <<Strip(lines[i]), body>>
                          /\ \E k \in DOMAIN all_chunks :
                                /\ all_chunks[k].page_number = pages[p].page_number
                                /\ all_chunks[k].section_title = Strip(lines[i])
                                /\ origins[k].via \in {"single", "table_run"}
                                   => all_chunks[k].content = body

\* C11: chunk_document never emits a chunk whose content is empty or
\* whitespace-only, whether a single run, a sub-chunk of _chunk_with_overlap
\* or a structured-table chunk, under every chunk_size / chunk_overlap.
C11_NoBlankChunk ==
    \A k \in DOMAIN all_chunks : Strip(all_chunks[k].content) # ""

\* C11 for the chunks that do not come out of _chunk_with_overlap, and for
\* those that do when chunk_overlap <= chunk_size
C11_HoldsWhenOverlapWithinSize ==
    \A k \in DOMAIN all_chunks :
        (origins[k].via # "overlap" \/ chunk_overlap <= chunk_size)
        => Strip(all_chunks[k].content) # ""

\* a run ending in a blank line has gone through _chunk_with_overlap
C11_Witness ==
    /\ ipc = "chunked"
    /\ pages[1].text = "Rates rose.\n\nBalance Sheet"
    /\ \E k \in DOMAIN all_chunks : origins[k].via = "overlap"

\* table-like structure as C14 words it: more than 4 pipe-delimited cells or
\* a horizontal-rule-like separator ('---', '===', or U+2500 three times,
\* written "~~~")
TableLikeStructure(body) ==
    \/ Count(body, "|") > 4
    \/ Contains(body, "---")
    \/ Contains(body, "===")
    \/ Contains(body, "~~~")

\* C14: a non-empty text run is emitted as a single chunk with has_table =
\* true if and only if its body has more than 4 pipe-delimited cells or a
\* horizontal-rule-like separator line; a run with neither is ordinary text
\* with has_table = false.
C14_HasTableIffTableLike ==
    \A p \in ChunkedPages :
        LET sections == SplitIntoSections(pages[p].text)
        IN  \A run \in DOMAIN sections :
                Strip(sections[run][2]) # "" =>
                    /\ ChunksOfRun(p, run) # {}
                    /\ \A k \in ChunksOfRun(p, run) :
                          all_chunks[k].has_table
                              <=> TableLikeStructure(sections[run][2])
                    /\ TableLikeStructure(sections[run][2])
                          => Cardinality(ChunksOfRun(p, run)) = 1

\* C14 with the test the code makes: more than 4 pipes or the word "table"
C14_HasTableIffPipesOrTableWord ==
    \A p \in ChunkedPages :
        LET sections == SplitIntoSections(pages[p].text)
        IN  \A run \in DOMAIN sections :
                Strip(sections[run][2]) # "" =>
                    /\ ChunksOfRun(p, run) # {}
                    /\ \A k \in ChunksOfRun(p, run) :
                          all_chunks[k].has_table
                              <=> ( \/ Count(sections[run][2], "|") > 4
                                    \/ Contains(Lower(sections[run][2]), "table") )

\* a run with a '---' line between two lines of text has been chunked
C14_Witness ==
    /\ ipc = "chunked"
    /\ pages[1].text = "Assets: 100\n---\nAssets: 100"
    /\ Len(all_chunks) = 1

(***************************************************************************)
(* Properties of DocumentCracker._extract_tables                           *)
(***************************************************************************)
\* table detection fails on the page: find_tables() or an extract() raises
DetectionFails(raw_page) ==
    \/ raw_page.tabs.raises
    \/ \E i \in DOMAIN raw_page.tabs.tables : raw_page.tabs.tables[i].raises

\* C16: when table detection fails on a page (the detector or a table's
\* extraction raises), the page's table list is empty and extraction goes
\* on: the page's text and images are produced and crack does not fail.
C16_FailedDetectionGivesNoTables ==
    /\ \A p \in DOMAIN pages :
          DetectionFails(doc[p]) =>
              /\ pages[p].tables = <<>>
              /\ pages[p].text = Strip(doc[p].text)
              /\ pages[p].images = ExtractImages(doc[p], p, min_image_size)
    /\ ipc \in {"chunk", "chunked"} => Len(pages) = Len(doc)

\* C16 but for the table list, which holds the tables extracted before the
\* failure
C16_FailedDetectionIsNotFatal ==
    /\ \A p \in DOMAIN pages :
          DetectionFails(doc[p]) =>
              /\ doc[p].tabs.raises => pages[p].tables = <<>>
              /\ Len(pages[p].tables) < Len(doc[p].tabs.tables)
                   \/ doc[p].tabs.tables = <<>>
              /\ pages[p].text = Strip(doc[p].text)
              /\ pages[p].images = ExtractImages(doc[p], p, min_image_size)
    /\ ipc \in {"chunk", "chunked"} => Len(pages) = Len(doc)

\* a page whose second table fails to extract has been cracked, image and all
C16_Witness ==
    /\ ipc = "chunked"
    /\ \E p \in DOMAIN pages :
          /\ doc[p].tabs.tables = <<Found(TableData1), Raising>>
          /\ Len(pages[p].images) = 1

Range(s) == { s[i] : i \in DOMAIN s }

Ids(s) == { s[i].id : i \in DOMAIN s }

NoDuplicateIds(s) ==
    \A i, j \in DOMAIN s : i # j => s[i].id # s[j].id

\* the highest score the merged list holds for an id
BestScore(id) ==
    CHOOSE b \in { r.score : r \in { x \in Range(results) : x.id = id } } :
        \A r \in Range(results) : r.id = id => r.score <= b

\* the top_k the caller asked for (the configured default when none is given)
RequestedTopK == IF top_k = <<>> THEN DefaultTopK ELSE top_k[1]

\* C3: the deduplicated list holds each identifier of the text and image
\* result sets exactly once, the item kept for an identifier is an occurrence
\* with the highest score seen for it, and the returned sequence never holds
\* one identifier twice.
C3_DedupKeepsHighestScore ==
    rpc = "done" =>
        /\ NoDuplicateIds(unique_results)
        /\ Ids(unique_results) = Ids(results)
        /\ \A i \in DOMAIN unique_results :
              /\ unique_results[i] \in Range(results)
              /\ unique_results[i].score = BestScore(unique_results[i].id)
        /\ NoDuplicateIds(returned)
        /\ \A i \in DOMAIN returned :
              returned[i].score = BestScore(returned[i].id)

\* an identifier twice in the text set (lower score first) and once more in
\* the image set, and it is returned
C3_Witness ==
    /\ rpc = "done"
    /\ Len(text_results) = 2
    /\ text_results[1].id = text_results[2].id
    /\ text_results[1].score < text_results[2].score
    /\ \E i \in DOMAIN image_results : image_results[i].id = text_results[1].id
    /\ text_results[1].id \in Ids(returned)

\* C4: every returned item has score >= similarity_threshold.
C4_ReturnedAtOrAboveThreshold ==
    rpc = "done" =>
        \A i \in DOMAIN returned : returned[i].score >= SimilarityThreshold

\* a hit below the threshold came back from the service, one exactly on the
\* threshold is returned
C4_Witness ==
    /\ rpc = "done"
    /\ \E r \in Range(results) : r.score < SimilarityThreshold
    /\ \E i \in DOMAIN returned : returned[i].score = SimilarityThreshold

\* C5: with an explicitly requested top_k (0 included) the returned sequence
\* is at most top_k long.
C5_LengthAtMostRequestedTopK ==
    (rpc = "done" /\ top_k # <<>>) => Len(returned) <= top_k[1]

\* C6: the returned sequence is ordered by non-increasing score.
C6_ReturnedNonIncreasing ==
    rpc = "done" =>
        \A i, j \in DOMAIN returned :
            i < j => returned[i].score >= returned[j].score

\* the text set came back in increasing score order and the result mixes
\* text and image items
C6_Witness ==
    /\ rpc = "done"
    /\ Len(text_results) = 2
    /\ text_results[1].score < text_results[2].score
    /\ Len(returned) >= 3
    /\ \E i, j \in DOMAIN returned :
          returned[i].content_type = "text" /\ returned[j].content_type = "image"

\* the identifiers that have an occurrence at or above the threshold
SurvivorIds == { r.id : r \in { x \in Range(results) : AboveThreshold(x) } }

\* what retrieve returns for text_results alone
TextOnlyResult ==
    SliceTo(FilterByThreshold(Dedup(SortByScoreDesc(text_results), {})),
            EffectiveK(top_k))

\* C12: with include_images, when the image-space embedding or the image
\* query raises, retrieve does not fail: the image result set is empty and
\* the call returns the sorted, deduplicated, filtered, truncated text
\* results, as a call without include_images does.
C12_ImageFailureIsSwallowed ==
    /\ image_failed => (rpc \in {"merge", "done"} /\ image_results = <<>>)
    /\ (rpc = "done" /\ (image_failed \/ ~include_images))
          => returned = TextOnlyResult

\* an image search has failed and retrieve returned two text results
C12_Witness ==
    /\ rpc = "done"
    /\ include_images
    /\ image_failed
    /\ Len(returned) = 2
    /\ \A i \in DOMAIN returned : returned[i].content_type = "text"

\* the position of the first occurrence of r in s
FirstPos(s, r) == CHOOSE i \in DOMAIN s : s[i] = r /\ \A j \in 1..(i - 1) : s[j] # r

\* C15: among items of equal score retrieve keeps the order of the merged
\* input: text results precede image results of the same score and results
\* of one set keep the service's order; an identifier with the same score in
\* both sets is retained as the text occurrence.
C15_TiesKeepMergedOrder ==
    rpc = "done" =>
        /\ results = text_results \o image_results
        /\ \A i, j \in DOMAIN unique_results :
              (i < j /\ unique_results[i].score = unique_results[j].score)
              => FirstPos(results, unique_results[i])
                   < FirstPos(results, unique_results[j])
        /\ \A i, j \in DOMAIN returned :
              (i < j /\ returned[i].score = returned[j].score)
              => FirstPos(results, returned[i]) < FirstPos(results, returned[j])
        /\ \A u \in Range(unique_results) :
              (\E t \in Range(text_results) : t.id = u.id /\ t.score = u.score)
              => u.content_type = "text"

\* identifier 1 comes back with score 0.75 from both searches and ties with
\* the image result 2: the text occurrence of 1 is returned, before 2
C15_Witness ==
    /\ rpc = "done"
    /\ text_results = << RetrievedChunk(<<1, 75>>, "text") >>
    /\ image_results = << RetrievedChunk(<<1, 75>>, "image"),
                          RetrievedChunk(<<2, 75>>, "image") >>
    /\ returned = << RetrievedChunk(<<1, 75>>, "text"),
                     RetrievedChunk(<<2, 75>>, "image") >>

\* C9: the result is exactly the first topK of the score-sorted, deduplicated
\* candidates at or above the threshold; the candidates of scores
\* [0.9, 0.75, 0.6, 0.3] with topK >= 2 give exactly [0.9, 0.75].
C9_ExactlyFirstTopKSurvivors ==
    rpc = "done" =>
        /\ Ids(filtered) = SurvivorIds
        /\ NoDuplicateIds(filtered)
        /\ \A i, j \in DOMAIN filtered :
              i < j => filtered[i].score >= filtered[j].score
        /\ returned = SubSeq(filtered, 1, Min(RequestedTopK, Len(filtered)))
        /\ ( /\ [i \in DOMAIN results |-> results[i].score] = <<90, 75, 60, 30>>
             /\ NoDuplicateIds(results)
             /\ RequestedTopK >= 2 )
           => [i \in DOMAIN returned |-> returned[i].score] = <<90, 75>>

\* the example of C9: four distinct candidates of scores 0.9, 0.75, 0.6, 0.3
C9_Witness ==
    /\ rpc = "done"
    /\ top_k = <<2>>
    /\ [i \in DOMAIN results |-> results[i].score] = <<90, 75, 60, 30>>
    /\ NoDuplicateIds(results)
    /\ [i \in DOMAIN returned |-> returned[i].score] = <<90, 75>>

\* C23: with effective result count k (the requested top_k, or the default
\* when none is given) the text hybrid query requests k results and, when
\* images are included, the image vector query requests max(2, floor(k / 2));
\* the text query is issued before the image query.
C23_QueriesRequestKAndHalfK ==
    /\ \A i \in DOMAIN search_calls :
          /\ search_calls[i].kind = "text" =>
                /\ i = 1
                /\ search_calls[i].top = RequestedTopK
          /\ search_calls[i].kind = "image" =>
                /\ i = 2
                /\ include_images
                /\ search_calls[1].kind = "text"
                /\ search_calls[i].top = Max(2, RequestedTopK \div 2)
    /\ rpc \in {"text", "merge", "done"} =>
          (search_calls # <<>> /\ search_calls[1].kind = "text")
    /\ (rpc = "done" /\ include_images /\ ~image_failed) =>
          (Len(search_calls) = 2 /\ search_calls[2].kind = "image")

\* C23 for every call whose top_k is not 0
C23_HoldsUnlessTopKZero == top_k # <<0>> => C23_QueriesRequestKAndHalfK

\* top_k = 6 with images: the text query asked for 6, the image query for 3
C23_Witness ==
    /\ rpc = "done"
    /\ top_k = <<LargeTopK>>
    /\ search_calls = << [kind |-> "text", top |-> 6],
                         [kind |-> "image", top |-> 3] >>

\* C9 for every call whose top_k is not 0
C9_HoldsUnlessTopKZero == top_k # <<0>> => C9_ExactlyFirstTopKSurvivors

\* C5 for every call whose top_k is not 0
C5_HoldsUnlessTopKZero == top_k # <<0>> => C5_LengthAtMostRequestedTopK

====
